---- MODULE Spec2Model ----
(***************************************************************************)
(* Model of photoapp/views.py: the upload-and-filter handler process_view  *)
(* and the object store (S3 bucket) it writes to.                          *)
(*                                                                         *)
(* Text that the handler inspects or builds character by character (the    *)
(* filter selector, file names, object keys) is a sequence of one-letter   *)
(* strings; fixed response texts are plain strings.  A dictionary          *)
(* (request.GET, request.POST, request.FILES, S3 metadata) is a function   *)
(* whose domain is its set of keys.                                        *)
(***************************************************************************)
EXTENDS Integers, Sequences, FiniteSets, TLC

VARIABLES pc, request, local, calls, response, store

vars == <<pc, request, local, calls, response, store>>

(***************************************************************************)
(* Bounds of the model.                                                    *)
(***************************************************************************)
\* number of requests the server handles concurrently
NumReq == 2
\* number of distinct values uuid.uuid4() can return
MaxUuid == 2

Requests == 1..NumReq
Uuids == 1..MaxUuid

(***************************************************************************)
(* String helpers: what str.lower, str.replace and os.path.splitext do.    *)
(***************************************************************************)
UpperCase == <<"A","B","C","D","E","F","G","H","I","J","K","L","M",
               "N","O","P","Q","R","S","T","U","V","W","X","Y","Z">>
LowerCase == <<"a","b","c","d","e","f","g","h","i","j","k","l","m",
               "n","o","p","q","r","s","t","u","v","w","x","y","z">>

LowerChar(c) ==
    IF \E i \in DOMAIN UpperCase : UpperCase[i] = c
    THEN LowerCase[CHOOSE i \in DOMAIN UpperCase : UpperCase[i] = c]
    ELSE c

\* str.lower()
Lower(s) == [i \in DOMAIN s |-> LowerChar(s[i])]

\* str.replace(old, new) for one-character old and new
Replace(s, old, new) == [i \in DOMAIN s |-> IF s[i] = old THEN new ELSE s[i]]

\* str.rfind(c) with positions counted from 1; 0 when c does not occur
RFind(s, c) ==
    IF \E i \in DOMAIN s : s[i] = c
    THEN CHOOSE i \in DOMAIN s : s[i] = c /\ \A j \in DOMAIN s : s[j] = c => j <= i
    ELSE 0

\* os.path.splitext(p)[0]: p up to its last dot, when that dot lies in the
\* last path component and follows a character of it that is not a dot
SplitextRoot(p) ==
    LET sepIndex == RFind(p, "/")
        dotIndex == RFind(p, ".")
    IN  IF dotIndex > sepIndex
           /\ \E k \in (sepIndex + 1)..(dotIndex - 1) : p[k] # "."
        THEN SubSeq(p, 1, dotIndex - 1)
        ELSE p

(***************************************************************************)
(* Module-level configuration of views.py.                                 *)
(***************************************************************************)
BUCKET == "myclass1-bucket"

\* int(timedelta(hours=1).total_seconds())
Expires == 3600

\* uuid.uuid4().hex is 32 hexadecimal digits
HexLen == 32

HexDigits == <<"0","1","2","3","4","5","6","7","8","9","a","b","c","d","e","f">>

\* mutant of Uuid4Hex: an identifier that is not random
Uuid4HexConstant(u) == [i \in 1..HexLen |-> "0"]

\* the hex form of the random identifier u, padded with zeros on the left
Uuid4Hex(u) ==
    [i \in 1..HexLen |->
        IF i = HexLen THEN HexDigits[(u % 16) + 1]
        ELSE IF i = HexLen - 1 THEN HexDigits[((u \div 16) % 16) + 1]
        ELSE "0"]

gray == <<"g","r","a","y">>
sepia == <<"s","e","p","i","a">>
blur == <<"b","l","u","r">>

\* the set literal of the filter check
ValidFilters == {gray, sepia, blur}

(***************************************************************************)
(* Values of the handler: dictionaries, responses, locals, S3 calls.       *)
(***************************************************************************)
EmptyDict == [k \in {} |-> <<>>]

\* dict.get(k) or default
GetOr(d, k, default) == IF k \in DOMAIN d THEN d[k] ELSE default

NoRequest == [method |-> "", GET |-> EmptyDict, POST |-> EmptyDict, FILES |-> EmptyDict]

NoResponse == [status |-> 0, location |-> "", text |-> "", detail |-> "", page |-> <<>>]

\* django.shortcuts.redirect(to)
Redirect(to) == [status |-> 302, location |-> to, text |-> "", detail |-> "", page |-> <<>>]

\* HttpResponseBadRequest(f"{text}{detail}")
HttpResponseBadRequest(text, detail) ==
    [status |-> 400, location |-> "", text |-> text, detail |-> detail, page |-> <<>>]

\* what Django answers when the view raises
ServerError == [status |-> 500, location |-> "", text |-> "Server Error (500)",
                detail |-> "", page |-> <<>>]

\* _page("Upload complete", body)
Page(l) ==
    [status |-> 200, location |-> "", text |-> "Upload complete", detail |-> "",
     page |-> <<[chosen |-> l.chosen,
                 key_orig |-> l.key_orig, url_orig |-> l.url_orig,
                 key_proc |-> l.key_proc, url_proc |-> l.url_proc]>>]

NoImage == [src |-> "", transform |-> ""]

NoUrl == [Bucket |-> "", Key |-> <<>>, ExpiresIn |-> 0]

NoFile == [name |-> <<>>, content |-> ""]

NoLocal == [img_file |-> NoFile, chosen |-> <<>>, im |-> "", processed |-> NoImage, uuid |-> 0,
            key_orig |-> <<>>, key_proc |-> <<>>, url_orig |-> NoUrl, url_proc |-> NoUrl]

(***************************************************************************)
(* The image library (PIL), seen from the handler.                         *)
(***************************************************************************)
\* contents Image.open can decode
Images == {"png-A", "png-B"}

\* the exception Image.open raises on other contents
DecodeError(content) == "cannot identify image file"

\* the transform of the branch taken for the chosen filter
ApplyFilter(chosen, im) ==
    [src |-> im,
     transform |-> IF chosen = gray THEN "grayscale"
                   ELSE IF chosen = sepia THEN "grayscale+colorize(#704214,#FFE6C7)"
                   ELSE "GaussianBlur(3)"]

\* processed.save(out, format="PNG"); out.getvalue()
PngBytes(processed) == [data |-> processed.src, transform |-> processed.transform]

\* img_file.read() after seek(0)
FileBytes(file) == [data |-> file.content, transform |-> ""]

(***************************************************************************)
(* Validation: the early returns of process_view.                          *)
(***************************************************************************)
\* mutant of Chosen: the selector compared as sent
ChosenNoLower(rq) == GetOr(rq.POST, "filter", <<>>)

\* (request.POST.get("filter") or "").lower()
Chosen(rq) == Lower(GetOr(rq.POST, "filter", <<>>))

\* mutants of Validate: the filter checked before the file; the decode
\* failure not caught as a client error; the method checked after the file
ValidateFilterFirst(rq) ==
    IF rq.method = "GET" THEN Redirect("/")
    ELSE IF Chosen(rq) \notin ValidFilters
    THEN HttpResponseBadRequest("Invalid filter.", "")
    ELSE IF "image" \notin DOMAIN rq.FILES
    THEN HttpResponseBadRequest("No file uploaded.", "")
    ELSE IF rq.FILES["image"].content \notin Images
    THEN HttpResponseBadRequest("Not a valid image: ", DecodeError(rq.FILES["image"].content))
    ELSE NoResponse

ValidateNoDecodeCheck(rq) ==
    IF rq.method = "GET" THEN Redirect("/")
    ELSE IF "image" \notin DOMAIN rq.FILES
    THEN HttpResponseBadRequest("No file uploaded.", "")
    ELSE IF Chosen(rq) \notin ValidFilters
    THEN HttpResponseBadRequest("Invalid filter.", "")
    ELSE NoResponse

ValidateMethodLast(rq) ==
    IF "image" \notin DOMAIN rq.FILES
    THEN HttpResponseBadRequest("No file uploaded.", "")
    ELSE IF Chosen(rq) \notin ValidFilters
    THEN HttpResponseBadRequest("Invalid filter.", "")
    ELSE IF rq.FILES["image"].content \notin Images
    THEN HttpResponseBadRequest("Not a valid image: ", DecodeError(rq.FILES["image"].content))
    ELSE IF rq.method = "GET" THEN Redirect("/")
    ELSE NoResponse

\* the response of the first early return taken, NoResponse when none is
Validate(rq) ==
    IF rq.method = "GET" THEN Redirect("/")
    ELSE IF "image" \notin DOMAIN rq.FILES
    THEN HttpResponseBadRequest("No file uploaded.", "")
    ELSE IF Chosen(rq) \notin ValidFilters
    THEN HttpResponseBadRequest("Invalid filter.", "")
    ELSE IF rq.FILES["image"].content \notin Images
    THEN HttpResponseBadRequest("Not a valid image: ", DecodeError(rq.FILES["image"].content))
    ELSE NoResponse

(***************************************************************************)
(* Key generation.                                                         *)
(***************************************************************************)
PrefixOrig == <<"u","p","l","o","a","d","s","/","o","r","i","g","i","n","a","l","s","/">>
PrefixProc == <<"u","p","l","o","a","d","s","/","p","r","o","c","e","s","s","e","d","/">>

\* mutant of Base: the file name alone
BaseNoUuid(u, name) == Replace(name, "/", "_")

\* f"{uuid.uuid4().hex}-{img_file.name.replace('/', '_')}"
Base(u, name) == Uuid4Hex(u) \o <<"-">> \o Replace(name, "/", "_")

\* f"uploads/originals/{base}"
KeyOrig(base) == PrefixOrig \o base

\* mutant of KeyProc: the processed image stored under the key of the original
KeyProcUnderOriginals(base, chosen) == PrefixOrig \o base

\* f"uploads/processed/{os.path.splitext(base)[0]}-{chosen}.png"
KeyProc(base, chosen) ==
    PrefixProc \o SplitextRoot(base) \o <<"-">> \o chosen \o <<".","p","n","g">>

\* the locals of process_view when it reaches the first upload
Locals(rq, u) ==
    LET file == rq.FILES["image"]
        chosen == Chosen(rq)
        base == Base(u, file.name)
    IN  [img_file |-> file,
         chosen |-> chosen,
         im |-> file.content,
         processed |-> ApplyFilter(chosen, file.content),
         uuid |-> u,
         key_orig |-> KeyOrig(base),
         key_proc |-> KeyProc(base, chosen),
         url_orig |-> NoUrl,
         url_proc |-> NoUrl]

(***************************************************************************)
(* The S3 client: put_object and generate_presigned_url.                   *)
(***************************************************************************)
NoBody == [data |-> "", transform |-> ""]

PutCall(key, body, chosen, ok) ==
    [op |-> "put_object", Bucket |-> BUCKET, Key |-> key, Body |-> body,
     ContentType |-> "image/png", Metadata |-> [filter |-> chosen],
     ExpiresIn |-> 0, ok |-> ok]

SignCall(key, ok) ==
    [op |-> "generate_presigned_url", Bucket |-> BUCKET, Key |-> key, Body |-> NoBody,
     ContentType |-> "", Metadata |-> EmptyDict, ExpiresIn |-> Expires, ok |-> ok]

\* the object a successful put_object leaves under its key
StoredObject(call) ==
    [Body |-> call.Body, ContentType |-> call.ContentType, Metadata |-> call.Metadata]

\* the bucket after a successful put_object: the key now holds the new object
PutObject(bucket, call) ==
    [k \in DOMAIN bucket \cup {call.Key} |->
        IF k = call.Key THEN StoredObject(call) ELSE bucket[k]]

\* the URL generate_presigned_url returns
PresignedUrl(call) == [Bucket |-> call.Bucket, Key |-> call.Key, ExpiresIn |-> call.ExpiresIn]

(***************************************************************************)
(* Control flow of process_view between its calls to S3.                   *)
(***************************************************************************)
\* mutant of AfterValidate: an early response built and not returned
AlwaysContinue(early) == "put_orig"

\* an early return ends the request; otherwise the uploads follow
AfterValidate(early) == IF early = NoResponse THEN "put_orig" ELSE "done"

\* mutant of StepAfter: the original signed before the processed image is stored
SignBeforeProcessedUpload(step) ==
    CASE step = "put_orig" -> "sign_orig"
      [] step = "sign_orig" -> "put_proc"
      [] step = "put_proc" -> "sign_proc"
      [] OTHER -> "done"

\* the statement order of lines 129-162
StepAfter(step) ==
    CASE step = "put_orig" -> "put_proc"
      [] step = "put_proc" -> "sign_orig"
      [] step = "sign_orig" -> "sign_proc"
      [] OTHER -> "done"

\* mutant of AfterError: the failed call made again
RetryAfterError(step) == step

\* an exception of the S3 client is not caught: the request ends
AfterError(step) == "done"

(***************************************************************************)
(* Actions.                                                                *)
(***************************************************************************)
\* lines 90-127: request rq arrives at worker r; uuid4() returns u
Begin(r, rq, u) ==
    /\ pc[r] = "idle"
    /\ request' = [request EXCEPT ![r] = rq]
    /\ LET early == Validate(rq)
       IN  /\ pc' = [pc EXCEPT ![r] = AfterValidate(early)]
           /\ IF early # NoResponse
              THEN /\ response' = [response EXCEPT ![r] = early]
                   /\ UNCHANGED local
              ELSE /\ local' = [local EXCEPT ![r] = Locals(rq, u)]
                   /\ UNCHANGED response
    /\ UNCHANGED <<calls, store>>

\* lines 130-137, the call returns
PutOriginal(r) ==
    /\ pc[r] = "put_orig"
    /\ LET call == PutCall(local[r].key_orig, FileBytes(local[r].img_file),
                           local[r].chosen, TRUE)
       IN  /\ calls' = [calls EXCEPT ![r] = Append(@, call)]
           /\ store' = PutObject(store, call)
    /\ pc' = [pc EXCEPT ![r] = StepAfter("put_orig")]
    /\ UNCHANGED <<request, local, response>>

\* lines 130-137, the call raises
PutOriginalError(r) ==
    /\ pc[r] = "put_orig"
    /\ calls' = [calls EXCEPT ![r] =
                    Append(@, PutCall(local[r].key_orig, FileBytes(local[r].img_file),
                                      local[r].chosen, FALSE))]
    /\ response' = [response EXCEPT ![r] = ServerError]
    /\ pc' = [pc EXCEPT ![r] = AfterError("put_orig")]
    /\ UNCHANGED <<request, local, store>>

\* lines 140-149, the call returns
PutProcessed(r) ==
    /\ pc[r] = "put_proc"
    /\ LET call == PutCall(local[r].key_proc, PngBytes(local[r].processed),
                           local[r].chosen, TRUE)
       IN  /\ calls' = [calls EXCEPT ![r] = Append(@, call)]
           /\ store' = PutObject(store, call)
    /\ pc' = [pc EXCEPT ![r] = StepAfter("put_proc")]
    /\ UNCHANGED <<request, local, response>>

\* lines 140-149, the call raises
PutProcessedError(r) ==
    /\ pc[r] = "put_proc"
    /\ calls' = [calls EXCEPT ![r] =
                    Append(@, PutCall(local[r].key_proc, PngBytes(local[r].processed),
                                      local[r].chosen, FALSE))]
    /\ response' = [response EXCEPT ![r] = ServerError]
    /\ pc' = [pc EXCEPT ![r] = AfterError("put_proc")]
    /\ UNCHANGED <<request, local, store>>

\* lines 152-157, the call returns
SignOriginal(r) ==
    /\ pc[r] = "sign_orig"
    /\ LET call == SignCall(local[r].key_orig, TRUE)
       IN  /\ calls' = [calls EXCEPT ![r] = Append(@, call)]
           /\ local' = [local EXCEPT ![r].url_orig = PresignedUrl(call)]
    /\ pc' = [pc EXCEPT ![r] = StepAfter("sign_orig")]
    /\ UNCHANGED <<request, response, store>>

\* lines 152-157, the call raises
SignOriginalError(r) ==
    /\ pc[r] = "sign_orig"
    /\ calls' = [calls EXCEPT ![r] = Append(@, SignCall(local[r].key_orig, FALSE))]
    /\ response' = [response EXCEPT ![r] = ServerError]
    /\ pc' = [pc EXCEPT ![r] = AfterError("sign_orig")]
    /\ UNCHANGED <<request, local, store>>

\* lines 158-179, the call returns and the confirmation page is rendered
SignProcessed(r) ==
    /\ pc[r] = "sign_proc"
    /\ LET call == SignCall(local[r].key_proc, TRUE)
           l == [local[r] EXCEPT !.url_proc = PresignedUrl(call)]
       IN  /\ calls' = [calls EXCEPT ![r] = Append(@, call)]
           /\ local' = [local EXCEPT ![r] = l]
           /\ IF StepAfter("sign_proc") = "done"
              THEN response' = [response EXCEPT ![r] = Page(l)]
              ELSE UNCHANGED response
    /\ pc' = [pc EXCEPT ![r] = StepAfter("sign_proc")]
    /\ UNCHANGED <<request, store>>

\* lines 158-162, the call raises
SignProcessedError(r) ==
    /\ pc[r] = "sign_proc"
    /\ calls' = [calls EXCEPT ![r] = Append(@, SignCall(local[r].key_proc, FALSE))]
    /\ response' = [response EXCEPT ![r] = ServerError]
    /\ pc' = [pc EXCEPT ![r] = AfterError("sign_proc")]
    /\ UNCHANGED <<request, local, store>>

\* the steps of a request in flight
Continue(r) ==
    \/ PutOriginal(r)
    \/ PutOriginalError(r)
    \/ PutProcessed(r)
    \/ PutProcessedError(r)
    \/ SignOriginal(r)
    \/ SignOriginalError(r)
    \/ SignProcessed(r)
    \/ SignProcessedError(r)

(***************************************************************************)
(* Requests the clients send.                                              *)
(***************************************************************************)
FileNames == {<<"a",".","p","n","g">>, <<"d","/","a",".","p","n","g">>, <<"a">>}

FilterValues == {gray, <<"G","r","a","y">>, <<"g","r","a","y","s","c","a","l","e">>, sepia, <<"B","L","U","R">>,
                 <<"i","n","v","a","l","i","d">>, <<>>}

Forms == {EmptyDict} \cup {[filter |-> v] : v \in FilterValues}

Uploads == {EmptyDict} \cup
           {[image |-> [name |-> n, content |-> c]] : n \in FileNames, c \in {"png-A", "text"}}

Queries == {EmptyDict, [filter |-> gray]}

\* every request of the single-request specification
AllRequests == [method : {"GET", "POST"}, GET : Queries, POST : Forms, FILES : Uploads]

Upload(name, content, filter) ==
    [method |-> "POST", GET |-> EmptyDict, POST |-> [filter |-> filter],
     FILES |-> [image |-> [name |-> name, content |-> content]]]

\* the requests of the concurrent specification, each of which any number of
\* clients may send: an upload, an upload of another image whose name differs
\* from the first in the extension only, an upload that is rejected, and a GET
ConcurrentRequests ==
    {Upload(<<"a",".","p","n","g">>, "png-A", gray),
     Upload(<<"a",".","j","p","g">>, "png-B", gray),
     Upload(<<"a",".","p","n","g">>, "text", gray),
     [method |-> "GET", GET |-> EmptyDict, POST |-> EmptyDict, FILES |-> EmptyDict]}

(***************************************************************************)
(* Specifications.                                                         *)
(***************************************************************************)
Init ==
    /\ pc = [r \in Requests |-> "idle"]
    /\ request = [r \in Requests |-> NoRequest]
    /\ local = [r \in Requests |-> NoLocal]
    /\ calls = [r \in Requests |-> <<>>]
    /\ response = [r \in Requests |-> NoResponse]
    /\ store = EmptyDict

\* one request, of any shape, handled by worker 1 from arrival to response
Next ==
    \/ \E rq \in AllRequests, u \in Uuids : Begin(1, rq, u)
    \/ Continue(1)

Spec == Init /\ [][Next]_vars

\* NumReq requests handled concurrently, their S3 calls interleaved
NextConcurrent ==
    \/ \E r \in Requests, rq \in ConcurrentRequests, u \in Uuids : Begin(r, rq, u)
    \/ \E r \in Requests : Continue(r)

SpecConcurrent == Init /\ [][NextConcurrent]_vars

(***************************************************************************)
(* Properties.                                                             *)
(***************************************************************************)
\* the selector the specification names for the first filter
grayscale == <<"g","r","a","y","s","c","a","l","e">>

StartsWith(s, prefix) ==
    /\ Len(s) >= Len(prefix)
    /\ SubSeq(s, 1, Len(prefix)) = prefix

Arrived(r) == pc[r] # "idle"

HasFile(r) == "image" \in DOMAIN request[r].FILES

\* the lower-cased value of the filter field, empty when the field is missing
FilterField(r) == Lower(GetOr(request[r].POST, "filter", <<>>))

InvalidFilterResponse(r) ==
    /\ response[r].status = 400
    /\ response[r].text = "Invalid filter."

Puts(r) == SelectSeq(calls[r], LAMBDA c : c.op = "put_object")

Signs(r) == SelectSeq(calls[r], LAMBDA c : c.op = "generate_presigned_url")

\* C1 as stated: a POST with a file is rejected with 400 "Invalid filter." if and
\* only if the lower-cased filter value is not one of grayscale, sepia, blur.
C1_AsStated ==
    \A r \in Requests :
        (Arrived(r) /\ request[r].method = "POST" /\ HasFile(r))
        => (InvalidFilterResponse(r) <=> FilterField(r) \notin {grayscale, sepia, blur})

\* C1 amended: a POST with a file is rejected with 400 "Invalid filter." if and
\* only if the lower-cased filter value is not one of gray, sepia, blur, whether
\* or not the file decodes, a missing filter field counting as invalid.
C1_InvalidFilter ==
    \A r \in Requests :
        (Arrived(r) /\ request[r].method = "POST" /\ HasFile(r))
        => (InvalidFilterResponse(r) <=> FilterField(r) \notin {gray, sepia, blur})

\* a mixed-case "Gray" upload was accepted and answered with the confirmation page
C1_Witness ==
    /\ HasFile(1)
    /\ "filter" \in DOMAIN request[1].POST
    /\ request[1].POST["filter"] = <<"G","r","a","y">>
    /\ response[1].status = 200

\* C2: a POST without a file field is answered 400 "No file uploaded.", whatever
\* the filter field holds.
C2_NoFile ==
    \A r \in Requests :
        (Arrived(r) /\ request[r].method = "POST" /\ ~HasFile(r))
        => /\ response[r].status = 400
           /\ response[r].text = "No file uploaded."
           /\ pc[r] = "done"

\* a POST without a file and with an invalid filter value was answered
C2_Witness ==
    /\ request[1].method = "POST"
    /\ ~HasFile(1)
    /\ FilterField(1) = <<"i","n","v","a","l","i","d">>
    /\ response[1].status = 400

\* C3: a POST with a file and an accepted filter, whose file does not decode, is
\* answered 400 with the decode failure reason, and no filter is applied and no
\* S3 call is made.
C3_DecodeFailure ==
    \A r \in Requests :
        (/\ Arrived(r)
         /\ request[r].method = "POST"
         /\ HasFile(r)
         /\ FilterField(r) \in {gray, sepia, blur}
         /\ request[r].FILES["image"].content \notin Images)
        => /\ response[r].status = 400
           /\ response[r].text = "Not a valid image: "
           /\ response[r].detail = "cannot identify image file"
           /\ pc[r] = "done"
           /\ local[r].processed = NoImage
           /\ calls[r] = <<>>
           /\ store = EmptyDict

\* an upload of a text file with filter sepia was answered
C3_Witness ==
    /\ request[1].method = "POST"
    /\ HasFile(1)
    /\ FilterField(1) = sepia
    /\ request[1].FILES["image"].content = "text"
    /\ response[1].status = 400

\* C4: a GET is answered with a redirect to "/" whatever its query parameters,
\* and makes no put_object and no generate_presigned_url call.
C4_GetRedirects ==
    \A r \in Requests :
        (Arrived(r) /\ request[r].method = "GET")
        => /\ response[r].status = 302
           /\ response[r].location = "/"
           /\ pc[r] = "done"
           /\ calls[r] = <<>>
           /\ store = EmptyDict

\* a GET that carries a query parameter, a form field and a file was answered
C4_Witness ==
    /\ request[1].method = "GET"
    /\ "filter" \in DOMAIN request[1].GET
    /\ "filter" \in DOMAIN request[1].POST
    /\ HasFile(1)
    /\ response[1].status = 302

\* C5: a request answered with the confirmation page has made exactly two
\* put_object calls, the first under uploads/originals/ and the second under
\* uploads/processed/, with distinct keys and the chosen filter as metadata, and
\* exactly two generate_presigned_url calls, one per key, expiring in 3600 s.
C5_TwoWritesTwoUrls ==
    \A r \in Requests :
        response[r].status = 200
        => /\ Len(Puts(r)) = 2
           /\ Len(Signs(r)) = 2
           /\ Len(calls[r]) = 4
           /\ \A i \in 1..4 : calls[r][i].ok
           /\ StartsWith(Puts(r)[1].Key, PrefixOrig)
           /\ StartsWith(Puts(r)[2].Key, PrefixProc)
           /\ Puts(r)[1].Key # Puts(r)[2].Key
           /\ \A i \in 1..2 :
                /\ Puts(r)[i].Metadata = [filter |-> FilterField(r)]
                /\ Signs(r)[i].Key = Puts(r)[i].Key
                /\ Signs(r)[i].ExpiresIn = 3600
                /\ Puts(r)[i].Key \in DOMAIN store

\* an upload named d/a.png was answered with the confirmation page
C5_Witness ==
    /\ response[1].status = 200
    /\ HasFile(1)
    /\ request[1].FILES["image"].name = <<"d","/","a",".","p","n","g">>

SameUpload(q, r) ==
    /\ HasFile(q) /\ HasFile(r)
    /\ request[q].FILES["image"].name = request[r].FILES["image"].name
    /\ FilterField(q) = FilterField(r)

\* C6: two successful uploads of files of the same name with the same filter,
\* whose random identifiers differ, have different original keys and different
\* processed keys.
C6_DistinctKeys ==
    \A q, r \in Requests :
        (/\ q # r
         /\ response[q].status = 200
         /\ response[r].status = 200
         /\ SameUpload(q, r)
         /\ local[q].uuid # local[r].uuid)
        => /\ response[q].page[1].key_orig # response[r].page[1].key_orig
           /\ response[q].page[1].key_proc # response[r].page[1].key_proc

\* two uploads of the same name and filter, with different identifiers, succeeded
C6_Witness ==
    /\ response[1].status = 200
    /\ response[2].status = 200
    /\ SameUpload(1, 2)
    /\ local[1].uuid # local[2].uuid

\* C7: when the first put_object fails, the request ends with a server error after
\* that one call and nothing is stored; when the second fails after the first
\* succeeded, the request ends with a server error after those two calls, the
\* original object stays in the store, and no call is repeated or added.
C7_NoRetryNoCleanup ==
    \A r \in Requests :
        /\ (Len(calls[r]) >= 1 /\ ~calls[r][1].ok)
           => /\ Len(calls[r]) = 1
              /\ response[r] = ServerError
              /\ pc[r] = "done"
              /\ store = EmptyDict
        /\ (Len(calls[r]) >= 2 /\ calls[r][1].ok /\ ~calls[r][2].ok)
           => /\ Len(calls[r]) = 2
              /\ calls[r][1].op = "put_object"
              /\ calls[r][2].op = "put_object"
              /\ calls[r][1].Key # calls[r][2].Key
              /\ response[r] = ServerError
              /\ pc[r] = "done"
              /\ DOMAIN store = {calls[r][1].Key}
              /\ store[calls[r][1].Key] = StoredObject(calls[r][1])

\* the processed upload failed after the original upload had succeeded
C7_Witness ==
    /\ Len(calls[1]) = 2
    /\ calls[1][1].ok
    /\ ~calls[1][2].ok
    /\ calls[1][2].Key = local[1].key_proc

\* C8: a request answered with a 4xx response has made no S3 call, has left the
\* store as it was, and takes no further step.
C8_RejectionHasNoEffect ==
    \A r \in Requests :
        (response[r].status >= 400 /\ response[r].status < 500)
        => /\ calls[r] = <<>>
           /\ store = EmptyDict
           /\ pc[r] = "done"
           /\ ~ENABLED Continue(r)

\* an upload with a missing filter field was rejected
C8_Witness ==
    /\ response[1].status = 400
    /\ HasFile(1)
    /\ "filter" \notin DOMAIN request[1].POST

\* the random identifier of request r is that of no other request
OwnIdentifier(r) == \A q \in Requests \ {r} : local[q].uuid # local[r].uuid

IsPutStep(r) ==
    /\ Len(calls'[r]) = Len(calls[r]) + 1
    /\ calls'[r][Len(calls'[r])].op = "put_object"

\* C9: a put_object of a request whose random identifier is its own targets a key
\* that holds no object, and changes or removes no stored object; a step that is
\* no put_object leaves the store as it is.  So while all identifiers differ,
\* what a key holds never changes after the first write to it.
C9_Immutable ==
    [][/\ \A r \in Requests :
             (IsPutStep(r) /\ OwnIdentifier(r))
             => /\ calls'[r][Len(calls'[r])].Key \notin DOMAIN store
                /\ \A k \in DOMAIN store : k \in DOMAIN store' /\ store'[k] = store[k]
       /\ (\A r \in Requests : ~IsPutStep(r)) => store' = store]_vars

\* two uploads of the same name and filter, with different identifiers, have both
\* written their two objects
C9_Witness ==
    /\ SameUpload(1, 2)
    /\ local[1].uuid # local[2].uuid
    /\ Len(Puts(1)) = 2
    /\ Len(Puts(2)) = 2
    /\ Cardinality(DOMAIN store) = 4

ExpectedCalls(r) ==
    <<[op |-> "put_object", Key |-> local[r].key_orig],
      [op |-> "put_object", Key |-> local[r].key_proc],
      [op |-> "generate_presigned_url", Key |-> local[r].key_orig],
      [op |-> "generate_presigned_url", Key |-> local[r].key_proc]>>

\* C10: the S3 calls of a request are, in this order, a prefix of: put original,
\* put processed, sign original, sign processed; and a call is made only after
\* every earlier call has succeeded.
C10_CallOrder ==
    \A r \in Requests :
        /\ Len(calls[r]) <= 4
        /\ \A i \in 1..Len(calls[r]) :
              /\ calls[r][i].op = ExpectedCalls(r)[i].op
              /\ calls[r][i].Key = ExpectedCalls(r)[i].Key
              /\ i < Len(calls[r]) => calls[r][i].ok

\* all four calls were made
C10_Witness ==
    /\ Len(calls[1]) = 4
    /\ calls[1][4].ok
    /\ calls[1][4].op = "generate_presigned_url"

====
